---- MODULE Spec2Model ----
(***************************************************************************)
(* Trusted-dealer t-of-n key generation with Taproot-tweaked shares,       *)
(* modelled from src/python/trusted_dealer.py.                             *)
(*                                                                         *)
(* The curve library is external.  Its group is cyclic of prime order, so  *)
(* a point is represented by its multiple of the generator: the point k*G  *)
(* is the integer k, the point at infinity is 0, point addition is         *)
(* addition modulo the order and scalar multiplication is multiplication   *)
(* modulo the order.  The order is scaled down from the 256-bit order of   *)
(* secp256k1 to a small prime so that every scalar can be enumerated.      *)
(* The tagged hash is a random oracle, sampled lazily and memoised per     *)
(* x-only key; the parity of a point's Y coordinate is sampled with it.    *)
(***************************************************************************)
EXTENDS Integers, Sequences, FiniteSets, TLC

\* Scalar.SIZE, the (prime) order of the group, scaled down.
Order == 5

\* Bounds of the key generation runs.
MaxT == 3
MaxN == 3

\* Bounds of the direct calls of the public functions: the participant ids
\* passed to verify_share, the length of a commitment list, the length of a
\* list of ids or of public shares.
MaxPid == 6
MaxCommit == 2
MaxIds == 3

\* The ids of the direct calls go one past the order, so that lists hold
\* ids that are distinct integers and equal scalars.
MaxId == Order + 1

VARIABLES
    oracle,          \* memo of the tagged hash and the Y parity, per x-only key
    pc,              \* position of trusted_dealer_key_generation
    t, n,            \* its arguments
    coeffs,          \* its locals
    vss_commitment,
    tweak, g, Q,
    i,
    secret_shares,
    public_shares,
    err,             \* the error it raised, "" if none
    ret,             \* the tuple it returned, None before that
    call             \* the last call of a downstream function, with its result

vars == <<oracle, pc, t, n, coeffs, vss_commitment, tweak, g, Q, i,
          secret_shares, public_shares, err, ret, call>>

keygen_vars == <<pc, t, n, coeffs, vss_commitment, tweak, g, Q, i,
                 secret_shares, public_shares, err, ret>>

None == [kind |-> "none"]

----------------------------------------------------------------------------
(* Scalar and GE of the curve library *)

Scalars == 0..(Order - 1)

\* Scalar(x) and Scalar.from_int_wrapping(x): reduction modulo the order.
Scalar(x) == x % Order

Points == 0..(Order - 1)

\* GE(): the point at infinity.
Infinity == 0

\* The generator.
G == 1

\* GE.__add__
GE_add(P1, P2) == (P1 + P2) % Order

\* a * P for an int or Scalar a (GE.__rmul__)
GE_mul(a, P) == (Scalar(a) * P) % Order

\* P.to_bytes_xonly(): P and -P have the same x coordinate.
XOnly(P) == IF P <= Order - P THEN P ELSE Order - P

XOnlyKeys == {XOnly(P) : P \in Points \ {Infinity}}

\* What the oracle can answer for the x-only key x: a tweak, and which of
\* the two points with that x coordinate has the even Y.
OracleEntries(x) == [tweak : Scalars, even : {x, Order - x}]

\* Sequences over S of length at most k.
SeqsUpTo(S, k) == UNION {[1..m -> S] : m \in 0..k}

Range(s) == {s[k] : k \in 1..Len(s)}

Return(v) == [kind |-> "return", val |-> v, err |-> ""]

Raise(e) == [kind |-> "raise", val |-> -1, err |-> e]

----------------------------------------------------------------------------
(* Pure functions *)

RECURSIVE eval_point_loop(_, _, _, _, _)
eval_point_loop(commitments, x, j, result, power) ==
    IF j > Len(commitments) THEN result
    ELSE eval_point_loop(commitments, x, j + 1,
                         GE_add(result, GE_mul(power, commitments[j])),
                         Scalar(power * x))

\* Faulty variant: the running power of x is never advanced.
RECURSIVE eval_point_loop_stale_power(_, _, _, _, _)
eval_point_loop_stale_power(commitments, x, j, result, power) ==
    IF j > Len(commitments) THEN result
    ELSE eval_point_loop_stale_power(commitments, x, j + 1,
                                     GE_add(result, GE_mul(power, commitments[j])),
                                     power)

eval_point_poly_stale_power(commitments, x) ==
    eval_point_loop_stale_power(commitments, x, 1, Infinity, Scalar(1))

eval_point_poly(commitments, x) ==
    eval_point_loop(commitments, x, 1, Infinity, Scalar(1))

RECURSIVE eval_scalar_loop(_, _, _, _, _)
eval_scalar_loop(cs, x, j, result, power) ==
    IF j > Len(cs) THEN result
    ELSE eval_scalar_loop(cs, x, j + 1,
                          Scalar(result + cs[j] * power),
                          Scalar(power * x))

eval_scalar_poly(cs, x) ==
    eval_scalar_loop(cs, x, 1, Scalar(0), Scalar(1))

\* _taproot_tweak_and_sign(P) under the oracle memo orc: <<tweak, g>>.
taproot_tweak_and_sign(P, orc) ==
    LET e == orc[XOnly(P)]
    IN  <<e.tweak, IF e.even = P THEN 1 ELSE -1>>

\* modinv_scalar(x): pow(int(x), -1, Scalar.SIZE), the y with x * y == 1.
modinv_scalar(x) ==
    IF x = 0 THEN Raise("ZeroDivisor")
    ELSE Return(CHOOSE y \in Scalars : (x * y) % Order = 1)

\* Faulty variant: the polynomial is evaluated at the 0-based index of the participant.
verify_share_zero_based(participant_id, sec_share, commitment, orc) ==
    IF sec_share = 0 THEN Return(FALSE)
    ELSE IF participant_id <= 0 THEN Return(FALSE)
    ELSE IF commitment = <<>> THEN Return(FALSE)
    ELSE LET P == commitment[1]
         IN  IF P = Infinity THEN Return(FALSE)
             ELSE LET tg == taproot_tweak_and_sign(P, orc)
                      idx == Scalar(participant_id - 1)
                      E == eval_point_poly(commitment, idx)
                      expected_pub == GE_add(GE_mul(tg[2], E), GE_mul(tg[1], G))
                  IN  Return(expected_pub = GE_mul(sec_share, G))

\* Faulty variant: the sign g is left out of the expected public share.
verify_share_no_sign(participant_id, sec_share, commitment, orc) ==
    IF sec_share = 0 THEN Return(FALSE)
    ELSE IF participant_id <= 0 THEN Return(FALSE)
    ELSE IF commitment = <<>> THEN Return(FALSE)
    ELSE LET P == commitment[1]
         IN  IF P = Infinity THEN Return(FALSE)
             ELSE LET tg == taproot_tweak_and_sign(P, orc)
                      idx == Scalar(participant_id)
                      E == eval_point_poly(commitment, idx)
                      expected_pub == GE_add(E, GE_mul(tg[1], G))
                  IN  Return(expected_pub = GE_mul(sec_share, G))

\* Faulty variant: a zero share is not rejected up front.
verify_share_no_zero_check(participant_id, sec_share, commitment, orc) ==
    IF participant_id <= 0 THEN Return(FALSE)
    ELSE IF commitment = <<>> THEN Return(FALSE)
    ELSE LET P == commitment[1]
         IN  IF P = Infinity THEN Return(FALSE)
             ELSE LET tg == taproot_tweak_and_sign(P, orc)
                      idx == Scalar(participant_id)
                      E == eval_point_poly(commitment, idx)
                      expected_pub == GE_add(GE_mul(tg[2], E), GE_mul(tg[1], G))
                  IN  Return(expected_pub = GE_mul(sec_share, G))

verify_share(participant_id, sec_share, commitment, orc) ==
    IF sec_share = 0 THEN Return(FALSE)
    ELSE IF participant_id <= 0 THEN Return(FALSE)
    ELSE IF commitment = <<>> THEN Return(FALSE)
    ELSE LET P == commitment[1]
         IN  IF P = Infinity THEN Return(FALSE)
             ELSE LET tg == taproot_tweak_and_sign(P, orc)
                      idx == Scalar(participant_id)
                      E == eval_point_poly(commitment, idx)
                      expected_pub == GE_add(GE_mul(tg[2], E), GE_mul(tg[1], G))
                  IN  Return(expected_pub = GE_mul(sec_share, G))

group_pubkey_from_commitment(commitment, orc) ==
    IF commitment = <<>> THEN Raise("InvalidCommitment")
    ELSE LET P == commitment[1]
         IN  IF P = Infinity THEN Raise("InvalidCommitment")
             ELSE LET tg == taproot_tweak_and_sign(P, orc)
                      Qc == GE_add(GE_mul(tg[2], P), GE_mul(tg[1], G))
                  IN  IF Qc = Infinity THEN Raise("InvalidGroupKey")
                      ELSE Return(Qc)

\* Faulty variant: the denominator takes target - j for j - target.
RECURSIVE lagrange_loop_swapped(_, _, _, _, _)
lagrange_loop_swapped(ids, target_id, k, num, denom) ==
    IF k > Len(ids) THEN <<num, denom>>
    ELSE IF ids[k] = target_id
         THEN lagrange_loop_swapped(ids, target_id, k + 1, num, denom)
         ELSE LET j_s == Scalar(ids[k])
                  x == Scalar(target_id)
              IN  lagrange_loop_swapped(ids, target_id, k + 1,
                                        Scalar(num * j_s),
                                        Scalar(denom * Scalar(x - j_s)))

\* Faulty variant: the target itself is not skipped.
RECURSIVE lagrange_loop_no_skip(_, _, _, _, _)
lagrange_loop_no_skip(ids, target_id, k, num, denom) ==
    IF k > Len(ids) THEN <<num, denom>>
    ELSE LET j_s == Scalar(ids[k])
             x == Scalar(target_id)
         IN  lagrange_loop_no_skip(ids, target_id, k + 1,
                                   Scalar(num * j_s),
                                   Scalar(denom * Scalar(j_s - x)))

\* The loop of lagrange_at_zero over ids[k..]: <<num, denom>>.
RECURSIVE lagrange_loop(_, _, _, _, _)
lagrange_loop(ids, target_id, k, num, denom) ==
    IF k > Len(ids) THEN <<num, denom>>
    ELSE IF ids[k] = target_id
         THEN lagrange_loop(ids, target_id, k + 1, num, denom)
         ELSE LET j_s == Scalar(ids[k])
                  x == Scalar(target_id)
              IN  lagrange_loop(ids, target_id, k + 1,
                                Scalar(num * j_s),
                                Scalar(denom * Scalar(j_s - x)))

lagrange_at_zero(ids, target_id) ==
    IF target_id \notin Range(ids) THEN Raise("InconsistentInput")
    ELSE IF Cardinality(Range(ids)) # Len(ids) THEN Raise("InconsistentInput")
    ELSE LET nd == lagrange_loop(ids, target_id, 1, Scalar(1), Scalar(1))
             denom_inv == modinv_scalar(nd[2])
         IN  IF denom_inv.kind = "raise" THEN denom_inv
             ELSE Return(Scalar(nd[1] * denom_inv.val))

\* The loop of group_pub_from_tweaked_pubshares over zip(ids, pubshares)[k..].
RECURSIVE interpolate_loop(_, _, _, _)
interpolate_loop(ids, pubshares, k, Qacc) ==
    IF k > Len(ids) THEN Return(Qacc)
    ELSE LET lam_i == lagrange_at_zero(ids, ids[k])
         IN  IF lam_i.kind = "raise" THEN lam_i
             ELSE interpolate_loop(ids, pubshares, k + 1,
                                   GE_add(Qacc, GE_mul(lam_i.val, pubshares[k])))

\* Faulty variant: the public shares are summed without their Lagrange coefficients.
RECURSIVE unweighted_loop(_, _, _, _)
unweighted_loop(ids, pubshares, k, Qacc) ==
    IF k > Len(ids) THEN Return(Qacc)
    ELSE unweighted_loop(ids, pubshares, k + 1, GE_add(Qacc, pubshares[k]))

group_pub_unweighted(ids, pubshares) ==
    IF Len(ids) # Len(pubshares) THEN Raise("InconsistentInput")
    ELSE IF Len(ids) = 0 THEN Raise("InconsistentInput")
    ELSE IF Cardinality(Range(ids)) # Len(ids) THEN Raise("InconsistentInput")
    ELSE LET r == unweighted_loop(ids, pubshares, 1, Infinity)
         IN  IF r.kind = "raise" THEN r
             ELSE IF r.val = Infinity THEN Raise("InconsistentInput")
             ELSE r

\* Faulty variant: an interpolated sum at infinity is returned.
group_pub_no_infinity_check(ids, pubshares) ==
    IF Len(ids) # Len(pubshares) THEN Raise("InconsistentInput")
    ELSE IF Len(ids) = 0 THEN Raise("InconsistentInput")
    ELSE IF Cardinality(Range(ids)) # Len(ids) THEN Raise("InconsistentInput")
    ELSE interpolate_loop(ids, pubshares, 1, Infinity)

group_pub_from_tweaked_pubshares(ids, pubshares) ==
    IF Len(ids) # Len(pubshares) THEN Raise("InconsistentInput")
    ELSE IF Len(ids) = 0 THEN Raise("InconsistentInput")
    ELSE IF Cardinality(Range(ids)) # Len(ids) THEN Raise("InconsistentInput")
    ELSE LET r == interpolate_loop(ids, pubshares, 1, Infinity)
         IN  IF r.kind = "raise" THEN r
             ELSE IF r.val = Infinity THEN Raise("InconsistentInput")
             ELSE r

----------------------------------------------------------------------------
(* trusted_dealer_key_generation(t, n), one action per block of its body *)

NoCall == [fn |-> "none"]

EmptyOracle == [x \in XOnlyKeys |-> None]

Init ==
    /\ oracle = EmptyOracle
    /\ pc = "idle"
    /\ t = 0
    /\ n = 0
    /\ coeffs = <<>>
    /\ vss_commitment = <<>>
    /\ tweak = 0
    /\ g = 0
    /\ Q = Infinity
    /\ i = 0
    /\ secret_shares = <<>>
    /\ public_shares = <<>>
    /\ err = ""
    /\ ret = None
    /\ call = NoCall

\* Faulty variant: t is not checked against n.
CheckParameters_no_upper(tt, nn) ==
    IF nn < 1 THEN "InvalidParameters"
    ELSE IF ~(1 <= tt) THEN "InvalidParameters"
    ELSE ""

\* The parameter checks: the error they raise, "" if none.
CheckParameters(tt, nn) ==
    IF nn < 1 THEN "InvalidParameters"
    ELSE IF ~(1 <= tt /\ tt <= nn) THEN "InvalidParameters"
    ELSE ""

KeygenCall(tt, nn) ==
    /\ pc = "idle"
    /\ t' = tt
    /\ n' = nn
    /\ LET e == CheckParameters(tt, nn)
       IN  IF e # "" THEN pc' = "raised" /\ err' = e
           ELSE pc' = "sample" /\ err' = ""
    /\ UNCHANGED <<oracle, coeffs, vss_commitment, tweak, g, Q, i,
                   secret_shares, public_shares, ret, call>>

\* a_0 from _random_scalar_nonzero, a_1.. from _random_scalar; A_j = a_j * G.
SampleCoeffs ==
    /\ pc = "sample"
    /\ \E a0 \in Scalars \ {0}, rest \in [1..(t - 1) -> Scalars] :
           coeffs' = <<a0>> \o rest
    /\ vss_commitment' = [j \in 1..t |-> GE_mul(coeffs'[j], G)]
    /\ pc' = "tweak"
    /\ UNCHANGED <<oracle, t, n, tweak, g, Q, i, secret_shares,
                   public_shares, err, ret, call>>

\* The check of A_0, the tweak and the tweaked group key Q.
TweakGroupKey ==
    /\ pc = "tweak"
    /\ LET P == vss_commitment[1]
       IN  IF P = Infinity
           THEN /\ pc' = "raised"
                /\ err' = "InvalidCommitment"
                /\ UNCHANGED <<oracle, tweak, g, Q, i>>
           ELSE \E e \in OracleEntries(XOnly(P)) :
                    /\ oracle[XOnly(P)] # None => e = oracle[XOnly(P)]
                    /\ oracle' = [oracle EXCEPT ![XOnly(P)] = e]
                    /\ tweak' = taproot_tweak_and_sign(P, oracle')[1]
                    /\ g' = taproot_tweak_and_sign(P, oracle')[2]
                    /\ Q' = GE_add(GE_mul(g', P), GE_mul(tweak', G))
                    /\ IF Q' = Infinity
                       THEN pc' = "raised" /\ err' = "InvalidGroupKey" /\ i' = i
                       ELSE pc' = "loop" /\ err' = err /\ i' = 1
    /\ UNCHANGED <<t, n, coeffs, vss_commitment, secret_shares,
                   public_shares, ret, call>>

\* Faulty variant: a zero share is kept and the loop goes on.
ShareStep_keeps_zero_share ==
    /\ pc = "loop"
    /\ i <= n
    /\ LET idx == Scalar(i)
           E == eval_point_poly(vss_commitment, idx)
           f_id == eval_scalar_poly(coeffs, idx)
           d_i == Scalar(g * f_id + tweak)
           P_i_Q == GE_add(GE_mul(g, E), GE_mul(tweak, G))
       IN  IF P_i_Q # GE_mul(d_i, G)
           THEN /\ pc' = "raised"
                /\ err' = "AssertionError"
                /\ UNCHANGED <<i, secret_shares, public_shares>>
           ELSE /\ secret_shares' = Append(secret_shares, d_i)
                /\ public_shares' = Append(public_shares, P_i_Q)
                /\ i' = i + 1
                /\ UNCHANGED <<pc, err>>
    /\ UNCHANGED <<oracle, t, n, coeffs, vss_commitment, tweak, g, Q, ret, call>>

\* One iteration of the loop over the participants.
ShareStep ==
    /\ pc = "loop"
    /\ i <= n
    /\ LET idx == Scalar(i)
           E == eval_point_poly(vss_commitment, idx)
           f_id == eval_scalar_poly(coeffs, idx)
           d_i == Scalar(g * f_id + tweak)
           P_i_Q == GE_add(GE_mul(g, E), GE_mul(tweak, G))
       IN  IF d_i = 0
           THEN /\ pc' = "raised"
                /\ err' = "ZeroShare"
                /\ UNCHANGED <<i, secret_shares, public_shares>>
           ELSE IF P_i_Q # GE_mul(d_i, G)
           THEN /\ pc' = "raised"
                /\ err' = "AssertionError"
                /\ UNCHANGED <<i, secret_shares, public_shares>>
           ELSE /\ secret_shares' = Append(secret_shares, d_i)
                /\ public_shares' = Append(public_shares, P_i_Q)
                /\ i' = i + 1
                /\ UNCHANGED <<pc, err>>
    /\ UNCHANGED <<oracle, t, n, coeffs, vss_commitment, tweak, g, Q, ret, call>>

KeygenReturn ==
    /\ pc = "loop"
    /\ i > n
    /\ pc' = "returned"
    /\ ret' = [kind |-> "return",
               vss_commitment |-> vss_commitment,
               secret_shares |-> secret_shares,
               public_shares |-> public_shares]
    /\ UNCHANGED <<oracle, t, n, coeffs, vss_commitment, tweak, g, Q, i,
                   secret_shares, public_shares, err, call>>

----------------------------------------------------------------------------
(* The consumers of a run's output *)

\* A participant checks a share, its own or any other scalar.
VerifyShareOfRun ==
    /\ pc = "returned"
    /\ call = NoCall
    /\ \E participant_id \in 1..n, sec_share \in Scalars :
           call' = [fn |-> "verify_share",
                    participant_id |-> participant_id,
                    sec_share |-> sec_share,
                    commitment |-> ret.vss_commitment,
                    out |-> verify_share(participant_id, sec_share,
                                         ret.vss_commitment, oracle)]
    /\ UNCHANGED <<oracle, keygen_vars>>

GroupPubkeyOfRun ==
    /\ pc = "returned"
    /\ call = NoCall
    /\ call' = [fn |-> "group_pubkey_from_commitment",
                commitment |-> ret.vss_commitment,
                out |-> group_pubkey_from_commitment(ret.vss_commitment, oracle)]
    /\ UNCHANGED <<oracle, keygen_vars>>

\* Lists of pairwise distinct ids among 1..m, in any order.
DistinctIdLists(m) ==
    {ids \in SeqsUpTo(1..m, m) : Cardinality(Range(ids)) = Len(ids)}

\* Some participants pool their public shares, in any number and order.
ReconstructOfRun ==
    /\ pc = "returned"
    /\ call = NoCall
    /\ \E ids \in DistinctIdLists(n) :
           LET pubshares == [k \in 1..Len(ids) |-> ret.public_shares[ids[k]]]
           IN  call' = [fn |-> "group_pub_from_tweaked_pubshares",
                        ids |-> ids,
                        pubshares |-> pubshares,
                        out |-> group_pub_from_tweaked_pubshares(ids, pubshares)]
    /\ UNCHANGED <<oracle, keygen_vars>>

\* The caller takes the result: no call is in flight any more.
CallReturn ==
    /\ call # NoCall
    /\ call' = NoCall
    /\ UNCHANGED <<oracle, keygen_vars>>

Next ==
    \/ \E tt \in 0..(MaxT + 1), nn \in 0..MaxN : KeygenCall(tt, nn)
    \/ SampleCoeffs
    \/ TweakGroupKey
    \/ ShareStep
    \/ KeygenReturn
    \/ VerifyShareOfRun
    \/ GroupPubkeyOfRun
    \/ ReconstructOfRun
    \/ CallReturn

Spec == Init /\ [][Next]_vars

----------------------------------------------------------------------------
(* verify_share called directly, on any input *)

\* The oracles that answer every x-only key.
FullOracles ==
    {o \in [XOnlyKeys -> UNION {OracleEntries(x) : x \in XOnlyKeys}] :
        \A x \in XOnlyKeys : o[x] \in OracleEntries(x)}

InitVerify ==
    /\ oracle \in FullOracles
    /\ pc = "verify"
    /\ t = 0
    /\ n = 0
    /\ coeffs = <<>>
    /\ vss_commitment = <<>>
    /\ tweak = 0
    /\ g = 0
    /\ Q = Infinity
    /\ i = 0
    /\ secret_shares = <<>>
    /\ public_shares = <<>>
    /\ err = ""
    /\ ret = None
    /\ call = NoCall

VerifyShareCall ==
    /\ pc = "verify"
    /\ call = NoCall
    /\ \E participant_id \in (-1)..MaxPid, sec_share \in Scalars,
          commitment \in SeqsUpTo(Points, MaxCommit) :
           call' = [fn |-> "verify_share",
                    participant_id |-> participant_id,
                    sec_share |-> sec_share,
                    commitment |-> commitment,
                    out |-> verify_share(participant_id, sec_share,
                                         commitment, oracle)]
    /\ UNCHANGED <<oracle, keygen_vars>>

NextVerify ==
    \/ VerifyShareCall
    \/ CallReturn

SpecVerify == InitVerify /\ [][NextVerify]_vars

----------------------------------------------------------------------------
(* lagrange_at_zero and group_pub_from_tweaked_pubshares called directly *)

InitInterpolate ==
    /\ oracle = EmptyOracle
    /\ pc = "interpolate"
    /\ t = 0
    /\ n = 0
    /\ coeffs = <<>>
    /\ vss_commitment = <<>>
    /\ tweak = 0
    /\ g = 0
    /\ Q = Infinity
    /\ i = 0
    /\ secret_shares = <<>>
    /\ public_shares = <<>>
    /\ err = ""
    /\ ret = None
    /\ call = NoCall

LagrangeCall ==
    /\ pc = "interpolate"
    /\ call = NoCall
    /\ \E ids \in SeqsUpTo(1..MaxId, MaxIds), target_id \in 1..MaxId :
           call' = [fn |-> "lagrange_at_zero",
                    ids |-> ids,
                    target_id |-> target_id,
                    out |-> lagrange_at_zero(ids, target_id)]
    /\ UNCHANGED <<oracle, keygen_vars>>

ReconstructCall ==
    /\ pc = "interpolate"
    /\ call = NoCall
    /\ \E ids \in SeqsUpTo(1..MaxId, MaxIds),
          pubshares \in SeqsUpTo(Points, MaxIds) :
           call' = [fn |-> "group_pub_from_tweaked_pubshares",
                    ids |-> ids,
                    pubshares |-> pubshares,
                    out |-> group_pub_from_tweaked_pubshares(ids, pubshares)]
    /\ UNCHANGED <<oracle, keygen_vars>>

NextInterpolate ==
    \/ LagrangeCall
    \/ ReconstructCall
    \/ CallReturn

SpecInterpolate == InitInterpolate /\ [][NextInterpolate]_vars

----------------------------------------------------------------------------
(* Reference definitions used by the properties below *)

RECURSIVE Power(_, _)
Power(x, k) == IF k = 0 THEN 1 ELSE (x * Power(x, k - 1)) % Order

RECURSIVE SumOver(_, _)
SumOver(f, k) == IF k = 0 THEN 0 ELSE f[k] + SumOver(f, k - 1)

\* sum_j cs[j] * x^(j-1) modulo the order, for scalars and for points alike.
PolyValue(cs, x) ==
    SumOver([j \in 1..Len(cs) |-> cs[j] * Power(x, j - 1)], Len(cs)) % Order

RECURSIVE ProductOver(_)
ProductOver(S) ==
    IF S = {} THEN 1
    ELSE LET m == CHOOSE m \in S : TRUE
         IN  m * ProductOver(S \ {m})

\* The ids are pairwise distinct as scalars.
DistinctAsScalars(ids) ==
    \A a, b \in 1..Len(ids) : a # b => Scalar(ids[a]) # Scalar(ids[b])

\* The Lagrange coefficient at zero of target among ids, from its equation.
Lambda(ids, target) ==
    CHOOSE y \in Scalars :
        (y * ProductOver({j - target : j \in Range(ids) \ {target}})) % Order
            = ProductOver(Range(ids) \ {target}) % Order

\* sum_k Lambda(ids, ids[k]) * pubshares[k]
InterpolatedSum(ids, pubshares) ==
    SumOver([k \in 1..Len(ids) |-> Lambda(ids, ids[k]) * pubshares[k]],
            Len(ids)) % Order

----------------------------------------------------------------------------
(* Properties of a key generation run and of its consumers *)

\* C1: a run that returns gives t commitments, n secret shares and n public
\* shares, and verify_share accepts every participant's own share.
C1_SharesVerify ==
    /\ pc = "returned" =>
        /\ Len(ret.vss_commitment) = t
        /\ Len(ret.secret_shares) = n
        /\ Len(ret.public_shares) = n
        /\ \A k \in 1..n :
               verify_share(k, ret.secret_shares[k], ret.vss_commitment, oracle)
                   = Return(TRUE)
    /\ (/\ call.fn = "verify_share"
        /\ call.sec_share = ret.secret_shares[call.participant_id])
          => call.out = Return(TRUE)

C1_Witness ==
    /\ pc = "returned"
    /\ t = 2
    /\ n = 3
    /\ g = -1
    /\ coeffs[2] # 0
    /\ call.fn = "verify_share"
    /\ call.participant_id = 3
    /\ call.sec_share = ret.secret_shares[3]
    /\ call.out = Return(TRUE)

\* C2: with n below the group order, every list of at least t distinct ids,
\* in any order, reconstructs the same point from the public shares; it is
\* the point group_pubkey_from_commitment derives, and the Q of the run.
C2_QuorumInvariant ==
    /\ pc = "returned" =>
        /\ Q = GE_add(GE_mul(g, ret.vss_commitment[1]), GE_mul(tweak, G))
        /\ group_pubkey_from_commitment(ret.vss_commitment, oracle) = Return(Q)
    /\ call.fn = "group_pubkey_from_commitment" => call.out = Return(Q)
    /\ (/\ call.fn = "group_pub_from_tweaked_pubshares"
        /\ n < Order
        /\ Len(call.ids) >= t)
          => call.out = Return(Q)

C2_Witness ==
    /\ pc = "returned"
    /\ t = 2
    /\ n = 3
    /\ coeffs[2] # 0
    /\ call.fn = "group_pub_from_tweaked_pubshares"
    /\ call.ids = <<3, 2>>
    /\ call.out = Return(Q)

\* C3: the assertion P_i_Q == d_i * G holds in every iteration, so every
\* public share is its secret share times G and the assertion never fails.
C3_AssertionHolds ==
    /\ err # "AssertionError"
    /\ Len(public_shares) = Len(secret_shares)
    /\ \A k \in 1..Len(secret_shares) :
           public_shares[k] = GE_mul(secret_shares[k], G)
    /\ (pc = "loop" /\ i <= n) =>
           GE_add(GE_mul(g, eval_point_poly(vss_commitment, Scalar(i))),
                  GE_mul(tweak, G))
             = GE_mul(Scalar(g * eval_scalar_poly(coeffs, Scalar(i)) + tweak), G)
    /\ pc = "returned" =>
           \A k \in 1..n :
               ret.public_shares[k] = GE_mul(ret.secret_shares[k], G)

C3_Witness ==
    /\ pc = "returned"
    /\ t = 3
    /\ n = 3
    /\ g = -1
    /\ coeffs[2] # 0
    /\ coeffs[3] # 0
    /\ tweak # 0

\* C4: verify_share rejects, for a participant of a run, every scalar other
\* than that participant's secret share.
C4_TamperedShareRejected ==
    /\ pc = "returned" =>
           \A k \in 1..n, s \in Scalars :
               s # ret.secret_shares[k] =>
                   verify_share(k, s, ret.vss_commitment, oracle) = Return(FALSE)
    /\ (/\ call.fn = "verify_share"
        /\ call.sec_share # ret.secret_shares[call.participant_id])
          => call.out = Return(FALSE)

C4_Witness ==
    /\ pc = "returned"
    /\ t = 2
    /\ call.fn = "verify_share"
    /\ call.participant_id = 2
    /\ call.sec_share = Scalar(ret.secret_shares[2] + 1)
    /\ call.sec_share # 0
    /\ call.out = Return(FALSE)

\* C6: the run fails with the invalid-parameters error exactly when
\* not (n >= 1 and 1 <= t <= n), and then nothing was sampled or computed.
C6_InvalidParameters ==
    pc # "idle" =>
        /\ (err = "InvalidParameters") <=> ~(n >= 1 /\ 1 <= t /\ t <= n)
        /\ err = "InvalidParameters" =>
            /\ pc = "raised"
            /\ coeffs = <<>>
            /\ vss_commitment = <<>>
            /\ secret_shares = <<>>
            /\ public_shares = <<>>
            /\ oracle = EmptyOracle
            /\ ret = None

C6_Witness ==
    /\ pc = "raised"
    /\ err = "InvalidParameters"
    /\ t = 3
    /\ n = 2

\* C7: a run that raises returns nothing, also after shares were computed;
\* a run that returns has A_0 and Q = g*A_0 + tweak*G off the identity and
\* every secret share d_i = g*f(i) + tweak nonzero.
C7_AllOrNothing ==
    /\ pc # "returned" => ret = None /\ call = NoCall
    /\ pc = "returned" =>
        /\ err = ""
        /\ ret.vss_commitment[1] # Infinity
        /\ Q = GE_add(GE_mul(g, ret.vss_commitment[1]), GE_mul(tweak, G))
        /\ Q # Infinity
        /\ \A k \in 1..n :
            /\ ret.secret_shares[k] # 0
            /\ ret.secret_shares[k] = Scalar(g * PolyValue(coeffs, k) + tweak)

C7_Witness ==
    /\ pc = "raised"
    /\ err = "ZeroShare"
    /\ Len(secret_shares) >= 2
    /\ ret = None

----------------------------------------------------------------------------
(* Properties of the direct calls *)

\* C5: verify_share never raises; it returns False for a zero share, an id
\* <= 0, an empty commitment or an identity A_0, and otherwise the boolean
\* sec_share*G == g*E(participant_id) + tweak*G.
C5_VerifyNeverRaises ==
    call.fn = "verify_share" =>
        LET pid == call.participant_id
            s == call.sec_share
            c == call.commitment
        IN  /\ call.out.kind = "return"
            /\ call.out.val \in BOOLEAN
            /\ IF s = 0 \/ pid <= 0 \/ c = <<>> \/ c[1] = Infinity
               THEN call.out.val = FALSE
               ELSE LET e == oracle[XOnly(c[1])]
                        sign == IF e.even = c[1] THEN 1 ELSE Order - 1
                    IN  call.out.val =
                            ((s * G) % Order
                               = (sign * PolyValue(c, pid) + e.tweak * G) % Order)

C5_Witness ==
    /\ call.fn = "verify_share"
    /\ call.participant_id = 3
    /\ Len(call.commitment) = 2
    /\ call.commitment[1] # Infinity
    /\ call.commitment[2] # Infinity
    /\ oracle[XOnly(call.commitment[1])].even # call.commitment[1]
    /\ call.out = Return(TRUE)

\* C8: lagrange_at_zero fails with the inconsistent-input error when the
\* target is not among the ids or an id is repeated; the lambda it returns
\* satisfies lambda * prod (j - target) == prod j modulo the order, over the
\* ids j other than the target, and is 1 when ids = [target].
C8_LagrangeCoefficient ==
    call.fn = "lagrange_at_zero" =>
        LET ids == call.ids
            target == call.target_id
            others == Range(ids) \ {target}
        IN  /\ (target \notin Range(ids) \/ Cardinality(Range(ids)) # Len(ids))
                  => call.out = Raise("InconsistentInput")
            /\ call.out.kind = "return" =>
                /\ call.out.val \in Scalars
                /\ (call.out.val * ProductOver({j - target : j \in others})) % Order
                       = ProductOver(others) % Order
            /\ ids = <<target>> => call.out = Return(1)
            /\ (/\ target \in Range(ids)
                /\ Cardinality(Range(ids)) = Len(ids)
                /\ \A j \in others : Scalar(j) # Scalar(target))
                  => call.out.kind = "return"

C8_Witness ==
    /\ call.fn = "lagrange_at_zero"
    /\ call.ids = <<4, 2, 3>>
    /\ call.target_id = 2
    /\ call.out = Return(1)

C10_AnyMagnitude ==
    /\ (/\ call.fn = "lagrange_at_zero"
        /\ Cardinality(Range(call.ids)) = Len(call.ids)
        /\ call.target_id \in Range(call.ids))
          => call.out.kind = "return"
    /\ (/\ call.fn = "group_pub_from_tweaked_pubshares"
        /\ Cardinality(Range(call.ids)) = Len(call.ids))
          => call.out.err # "ZeroDivisor"

\* C10, amended: the same for ids that are pairwise distinct modulo the
\* group order (as all ids in 1..order-1 are).
C10_DistinctModOrder ==
    /\ (/\ call.fn = "lagrange_at_zero"
        /\ DistinctAsScalars(call.ids)
        /\ call.target_id \in Range(call.ids))
          => /\ call.out.kind = "return"
             /\ call.out.val \in Scalars
             /\ lagrange_loop(call.ids, call.target_id, 1, 1, 1)[2] # 0
    /\ (/\ call.fn = "group_pub_from_tweaked_pubshares"
        /\ DistinctAsScalars(call.ids))
          => call.out.err # "ZeroDivisor"

C10_Witness ==
    /\ call.fn = "lagrange_at_zero"
    /\ call.ids = <<6, 2, 5>>
    /\ call.target_id = 6
    /\ call.out.kind = "return"

====
